---- MODULE Spec2Model ----
(***************************************************************************)
(* A model of the serial_device package: the OrEvent multiplexer           *)
(* (or_event.py), the EventProtocol adapter, the KeepAliveReader worker    *)
(* with its caller operations, and the request() coordinator               *)
(* (threaded.py).                                                          *)
(*                                                                         *)
(* Four specifications share the variables below; each one moves only the  *)
(* variables of its own component:                                         *)
(*   SpecOr   OrEvent objects built over a pool of threading.Event sources *)
(*   SpecEP   EventProtocol adapters driven by transport callbacks         *)
(*   Spec     one KeepAliveReader: worker thread, reader (I/O) thread,     *)
(*            port enumeration and caller threads; FairSpec adds the       *)
(*            scheduler's fairness                                         *)
(*   SpecReq  request() on a response queue                                *)
(***************************************************************************)
EXTENDS Integers, Sequences, FiniteSets, TLC

(***************************************************************************)
(* Bounds of the model.                                                    *)
(***************************************************************************)
NumSources == 3
MaxOrEvents == 2

Sources == 1..NumSources

None == "None"

(***************************************************************************)
(* threading.Event objects as or_event.py sees them.  An event is a record *)
(*   flag     the internal flag (is_set())                                 *)
(*   changed  the `changed` attribute orify() attaches: {k} for the        *)
(*            closure of the OrEvent with key k, {} while there is none    *)
(*   orified  hasattr(event, '_set'): set/clear have been overridden       *)
(* An OrEvent is a record                                                  *)
(*   flag     the derived event's flag                                     *)
(*   events   the source events its `changed` closure reads                *)
(* The operators below are pure: they take and return the event map `evs`  *)
(* and the OrEvent map `ors`.                                              *)
(***************************************************************************)
NewEvent == [flag |-> FALSE, changed |-> {}, orified |-> FALSE]

\* OrEvent.changed (or_event.py 58-66): re-derive or_event k from its sources.
changed(evs, ors, k) ==
    [ors EXCEPT ![k].flag = \E e \in ors[k].events : evs[e].flag]

\* The callback an event's overridden set/clear runs: self.changed().
run_changed(evs, ors, e) ==
    IF evs[e].changed = {}
    THEN ors
    ELSE changed(evs, ors, CHOOSE k \in evs[e].changed : TRUE)

\* or_set (or_event.py 10-12): self._set(); self.changed().
or_set(evs, ors, e) ==
    LET evs1 == [evs EXCEPT ![e].flag = TRUE]
    IN  [evs |-> evs1, ors |-> run_changed(evs1, ors, e)]

\* or_clear (or_event.py 15-17): self._clear(); self.changed().
or_clear(evs, ors, e) ==
    LET evs1 == [evs EXCEPT ![e].flag = FALSE]
    IN  [evs |-> evs1, ors |-> run_changed(evs1, ors, e)]

\* event.set(): the plain threading.Event.set unless orify() has replaced it.
event_set(evs, ors, e) ==
    IF evs[e].orified
    THEN or_set(evs, ors, e)
    ELSE [evs |-> [evs EXCEPT ![e].flag = TRUE], ors |-> ors]

\* event.clear(): the plain threading.Event.clear unless orify() replaced it.
event_clear(evs, ors, e) ==
    IF evs[e].orified
    THEN or_clear(evs, ors, e)
    ELSE [evs |-> [evs EXCEPT ![e].flag = FALSE], ors |-> ors]

\* A variant of orify that installs the overrides but never the callback.
orify_no_callback(ev, k) ==
    [ev EXCEPT !.orified = TRUE]

\* orify (or_event.py 20-40): event.changed = changed_callback, always; the
\* set/clear overrides are installed the first time only.
orify(ev, k) ==
    [ev EXCEPT !.changed = {k}, !.orified = TRUE]

\* The loop `for event_i in events: orify(event_i, changed)` of OrEvent.
orify_all(evs, S, k) ==
    [e \in DOMAIN evs |-> IF e \in S THEN orify(evs[e], k) ELSE evs[e]]

\* OrEvent(*events) (or_event.py 43-75) building the OrEvent with key k over
\* the sources S: orify every source, then set the initial state by changed().
\* `ors` must already have k in its domain.
OrEvent(evs, ors, k, S) ==
    LET evs1 == orify_all(evs, S, k)
        ors1 == [ors EXCEPT ![k] = [flag |-> FALSE, events |-> S]]
    IN  [evs |-> evs1, ors |-> changed(evs1, ors1, k)]

\* The OR over the sources of OrEvent k, read directly from the flags.
AnySet(evs, ors, k) == \E e \in ors[k].events : evs[e].flag

(***************************************************************************)
(* EventProtocol (threaded.py 64-95).  Its two events live in an event map *)
(* under the keys c (connected) and d (disconnected); the callbacks go     *)
(* through event.set()/event.clear(), so that OrEvents watching them are   *)
(* notified.  The base class callbacks of serial.threaded.Protocol do      *)
(* nothing, and the exception handed to connection_lost is only logged.    *)
(***************************************************************************)

\* A variant of connection_made that forgets to clear `disconnected`.
connection_made_no_clear(evs, ors, c, d) ==
    event_set(evs, ors, c)

\* connection_made (threaded.py 71-78): connected.set(); disconnected.clear().
connection_made(evs, ors, c, d) ==
    LET r == event_set(evs, ors, c)
    IN  event_clear(r.evs, r.ors, d)

\* connection_lost (threaded.py 84-95): connected.clear(); disconnected.set().
connection_lost(evs, ors, c, d) ==
    LET r == event_clear(evs, ors, c)
    IN  event_set(r.evs, r.ors, d)

(***************************************************************************)
(* More bounds.                                                            *)
(***************************************************************************)
NumAdapters == 2
NumTransports == 2
MaxEvents == 2
MaxOpens == 2
MaxClosedSets == 2
NumItems == 2
MaxQueue == 3
MaxDevWrites == 2

Adapters == 1..NumAdapters
\* The transports handed to connection_made: a reader thread and its port.
Transports == [id : 1..NumTransports, port : {"COM1", "COM2"}]
\* The caller threads of a KeepAliveReader.  Both may call close(); the first
\* one owns the reader and may use it as a context manager, the second one is
\* the thread that writes to it.
Callers == {"t1", "t2"}
Owner == "t1"
Writers == {"t2"}
\* A timeout argument: None (block) or some finite number of seconds.
Timeouts == {None, "finite"}
\* The responses the I/O callback may put on a response queue.
Items == 1..NumItems
\* What a call that has not returned an item holds as its result.
NoItem == 0
\* The threads calling request() on one response queue.
Requesters == {"r1", "r2"}

Min(a, b) == IF a < b THEN a ELSE b

VARIABLES
    src,        \* SpecOr: the pool of source events, Sources -> event record
    derived,    \* SpecOr: the OrEvents built so far, a sequence of OrEvent records
    orStep,     \* SpecOrStep: thread -> [at, k, any]: where its set()/clear() stands
    epEv,       \* SpecEP: <<adapter, "connected"|"disconnected">> -> event record
    epInfo,     \* SpecEP: adapter -> [transport, port, processed]
    epStep,     \* SpecEPStep: adapter -> [at, made]: where its running callback
                \* stands, and whether a connection_made has completed
    ev,         \* Spec: the reader's events and its adapter's, name -> event record
    orev,       \* Spec: the OrEvents of run() and __enter__, name -> OrEvent record
    pc,         \* Spec: where the worker thread is in run()
    default_timeout_s,  \* Spec: kwargs.get('default_timeout_s', None)
    available,  \* Spec: whether get_serial_ports(only_available=True) lists comport
    protocol,   \* Spec: self.protocol, None or the adapter of the latest open
    transportOpen,      \* Spec: the serial device of that adapter is open
    readerAlive,        \* Spec: its reader thread has not called connection_lost
    error_exception,    \* Spec: self.error.exception
    opens,      \* Spec: calls of serial.serial_for_url made (counted up to MaxOpens)
    closedSets, \* Spec: executions of self.closed.set() (counted up to MaxClosedSets)
    initial_listing,    \* Spec: what the enumeration of run() line 144 found
    polled,     \* Spec: the worker has entered the wait of the poll loop (line 159)
    cpc,        \* Spec: caller thread -> where it is in its current call
    scope,      \* Spec: the owner's `with reader:` block: out, in, failed, left
    call,       \* Spec: caller thread -> its write() in progress: [timeout, early]
    lastWrite,  \* Spec: the latest write() that has returned or raised: [early, outcome]
    closeCalled,        \* Spec: caller thread -> it has called close()
    queue,      \* SpecReq: the response queue, oldest item first
    rpc,        \* SpecReq: requester -> where it is in request()
    rarg,       \* SpecReq: requester -> [poll, timeout] of its call
    rres,       \* SpecReq: requester -> the item its call returned, or NoItem
    devWrites   \* SpecReq: payloads written to the device (counted up to MaxDevWrites)

orVars == <<src, derived, orStep>>
epVars == <<epEv, epInfo, epStep>>
workerVars == <<pc, default_timeout_s, available, protocol, transportOpen, readerAlive,
                error_exception, opens, closedSets, initial_listing, polled>>
callerVars == <<cpc, scope, call, lastWrite, closeCalled>>
\* What the actions of one component leave alone: the other components.
reqVars == <<queue, rpc, rarg, rres, devWrites>>
notReader == <<orVars, epVars, reqVars>>
readerVars == <<ev, orev, workerVars, callerVars>>
notOr == <<epVars, readerVars, reqVars>>
notEp == <<orVars, readerVars, reqVars>>
notReq == <<orVars, epVars, readerVars>>

vars == <<orVars, epVars, readerVars, reqVars>>

(***************************************************************************)
(* SpecOr: OrEvents over a pool of sources.                                *)
(***************************************************************************)
\* The threads of SpecOrStep and the source each of them sets and clears:
\* the I/O thread flips one event, a caller another one.
OrThreads == {"io", "caller"}
ThreadSource == [th \in OrThreads |-> IF th = "io" THEN 1 ELSE 2]
NoStep == [at |-> "idle", k |-> 0, any |-> FALSE]

OrInit ==
    /\ src = [e \in Sources |-> NewEvent]
    /\ derived = <<>>
    /\ orStep = [th \in OrThreads |-> NoStep]

\* or_event = OrEvent(*S) for a non-empty set S of sources.
OrConstruct(S) ==
    /\ Len(derived) < MaxOrEvents
    /\ LET k == Len(derived) + 1
           r == OrEvent(src, Append(derived, [flag |-> FALSE, events |-> {}]), k, S)
       IN  /\ src' = r.evs
           /\ derived' = r.ors
    /\ UNCHANGED <<notOr, orStep>>

\* source.set() by any thread.
SrcSet(e) ==
    /\ LET r == event_set(src, derived, e)
       IN  /\ src' = r.evs
           /\ derived' = r.ors
    /\ UNCHANGED <<notOr, orStep>>

\* source.clear() by any thread.
SrcClear(e) ==
    /\ LET r == event_clear(src, derived, e)
       IN  /\ src' = r.evs
           /\ derived' = r.ors
    /\ UNCHANGED <<notOr, orStep>>

OrNext ==
    \/ \E S \in (SUBSET Sources) \ {{}} : OrConstruct(S)
    \/ \E e \in Sources : SrcSet(e)
    \/ \E e \in Sources : SrcClear(e)

(***************************************************************************)
(* SpecOrStep: two threads set and clear different sources of the OrEvents *)
(* at the same time.  or_set/or_clear and the changed() closure hold no    *)
(* lock, so their statements interleave; orStep[th].at is where the call   *)
(* of thread th stands:                                                    *)
(*   idle   no call running                                                *)
(*   read   after self._set() / self._clear() (or_event.py 11, 16), before *)
(*          changed() reads the sources (60)                               *)
(*   write  after bools was computed (60), before or_event.set() or        *)
(*          or_event.clear() (62-66); `k` is the OrEvent of the closure    *)
(*          and `any` is any(bools)                                        *)
(***************************************************************************)

\* Thread th calls set() (v TRUE) or clear() (v FALSE) on its source: the
\* flag changes (or_event.py 11, 16, or the plain Event method when the
\* source was never orified), and the callback is still to run.
OrStepFlag(th, v) ==
    LET e == ThreadSource[th]
    IN  /\ orStep[th].at = "idle"
        /\ src' = [src EXCEPT ![e].flag = v]
        /\ orStep' = [orStep EXCEPT ![th].at =
                        IF src[e].orified /\ src[e].changed # {} THEN "read" ELSE "idle"]
        /\ UNCHANGED <<notOr, derived>>

\* changed() line 60: bools = [event_i.is_set() for event_i in events].
OrStepRead(th) ==
    LET e == ThreadSource[th]
        k == CHOOSE k \in src[e].changed : TRUE
    IN  /\ orStep[th].at = "read"
        /\ orStep' = [orStep EXCEPT ![th] = [at |-> "write", k |-> k,
                                              any |-> AnySet(src, derived, k)]]
        /\ UNCHANGED <<notOr, src, derived>>

\* changed() lines 62-66: or_event.set() if any(bools) else or_event.clear();
\* the call returns.
OrStepWrite(th) ==
    /\ orStep[th].at = "write"
    /\ derived' = [derived EXCEPT ![orStep[th].k].flag = orStep[th].any]
    /\ orStep' = [orStep EXCEPT ![th] = NoStep]
    /\ UNCHANGED <<notOr, src>>

OrStepNext ==
    \/ \E S \in (SUBSET Sources) \ {{}} : OrConstruct(S)
    \/ \E th \in OrThreads, v \in BOOLEAN : OrStepFlag(th, v)
    \/ \E th \in OrThreads : OrStepRead(th)
    \/ \E th \in OrThreads : OrStepWrite(th)

(***************************************************************************)
(* SpecEP: EventProtocol adapters driven by the transport's callbacks, in  *)
(* any order and any number of times.  `processed` counts the callbacks an *)
(* adapter has completed (it stops counting at MaxEvents).                 *)
(***************************************************************************)
EpKeys == Adapters \X {"connected", "disconnected"}

\* EventProtocol.__init__ (threaded.py 65-69).
EpInit ==
    /\ epEv = [k \in EpKeys |-> NewEvent]
    /\ epInfo = [a \in Adapters |-> [transport |-> None, port |-> None, processed |-> 0]]
    /\ epStep = [a \in Adapters |-> [at |-> "idle", made |-> FALSE]]

NoOrEvents == <<>>

\* adapter a: connection_made(t).
EpConnectionMade(a, t) ==
    /\ epEv' = connection_made(epEv, NoOrEvents, <<a, "connected">>, <<a, "disconnected">>).evs
    /\ epInfo' = [epInfo EXCEPT ![a] = [transport |-> t.id, port |-> t.port,
                                         processed |-> Min(@.processed + 1, MaxEvents)]]
    /\ UNCHANGED <<notEp, epStep>>

\* adapter a: connection_lost(exception).
EpConnectionLost(a) ==
    /\ epEv' = connection_lost(epEv, NoOrEvents, <<a, "connected">>, <<a, "disconnected">>).evs
    /\ epInfo' = [epInfo EXCEPT ![a].processed = Min(@ + 1, MaxEvents)]
    /\ UNCHANGED <<notEp, epStep>>

EpNext ==
    \/ \E a \in Adapters, t \in Transports : EpConnectionMade(a, t)
    \/ \E a \in Adapters : EpConnectionLost(a)

(***************************************************************************)
(* SpecEPStep: the same adapters with each callback taken one event        *)
(* operation at a time, as another thread reading the events sees them.    *)
(* The callbacks of one adapter come from one reader thread, one after the *)
(* other.  epStep[a].at is where the running callback of adapter a stands: *)
(*   idle        no callback running                                       *)
(*   made_clear  connection_made after connected.set() (77), before        *)
(*               disconnected.clear() (78)                                 *)
(*   lost_set    connection_lost after connected.clear() (94), before      *)
(*               disconnected.set() (95)                                   *)
(***************************************************************************)

\* connection_made 75-77: self.port, self.transport, self.connected.set().
EpMadeSet(a, t) ==
    /\ epStep[a].at = "idle"
    /\ epEv' = event_set(epEv, NoOrEvents, <<a, "connected">>).evs
    /\ epInfo' = [epInfo EXCEPT ![a].transport = t.id, ![a].port = t.port]
    /\ epStep' = [epStep EXCEPT ![a].at = "made_clear"]
    /\ UNCHANGED notEp

\* connection_made 78: self.disconnected.clear(); the callback returns.
EpMadeClear(a) ==
    /\ epStep[a].at = "made_clear"
    /\ epEv' = event_clear(epEv, NoOrEvents, <<a, "disconnected">>).evs
    /\ epInfo' = [epInfo EXCEPT ![a].processed = Min(@ + 1, MaxEvents)]
    /\ epStep' = [epStep EXCEPT ![a] = [at |-> "idle", made |-> TRUE]]
    /\ UNCHANGED notEp

\* connection_lost 94: self.connected.clear().
EpLostClear(a) ==
    /\ epStep[a].at = "idle"
    /\ epEv' = event_clear(epEv, NoOrEvents, <<a, "connected">>).evs
    /\ epStep' = [epStep EXCEPT ![a].at = "lost_set"]
    /\ UNCHANGED <<notEp, epInfo>>

\* connection_lost 95: self.disconnected.set(); the callback returns.
EpLostSet(a) ==
    /\ epStep[a].at = "lost_set"
    /\ epEv' = event_set(epEv, NoOrEvents, <<a, "disconnected">>).evs
    /\ epInfo' = [epInfo EXCEPT ![a].processed = Min(@ + 1, MaxEvents)]
    /\ epStep' = [epStep EXCEPT ![a].at = "idle"]
    /\ UNCHANGED notEp

EpStepNext ==
    \/ \E a \in Adapters, t \in Transports : EpMadeSet(a, t)
    \/ \E a \in Adapters : EpMadeClear(a)
    \/ \E a \in Adapters : EpLostClear(a)
    \/ \E a \in Adapters : EpLostSet(a)

(***************************************************************************)
(* Spec: one KeepAliveReader (threaded.py 98-274).                         *)
(*                                                                         *)
(* The worker thread runs run(); pc is its position:                       *)
(*   new                not started                                        *)
(*   initial            before the enumeration of line 144                 *)
(*   poll               at the loop test of line 156                       *)
(*   poll_wait          in close_request.wait(2), line 159                 *)
(*   open               before serial_for_url, line 167                    *)
(*   bind_connected     in the with block, before line 182                 *)
(*   bind_disconnected  before line 183                                    *)
(*   wait_connected     in connected_event.wait(...), line 186             *)
(*   wait_disconnected  in disconnected_event.wait(), line 196             *)
(*   exit_close         leaving the with block by a return (190, 200)      *)
(*   exit_loop          leaving the with block at its end (203)            *)
(*   done               run() has returned                                 *)
(*   crashed            run() was ended by an exception it does not handle *)
(* The reader thread of serial.threaded.ReaderThread calls the adapter's   *)
(* connection_made before the with block is entered, and connection_lost   *)
(* when its read loop ends: on an I/O error at any time, or when the with  *)
(* block is left.                                                          *)
(***************************************************************************)
ReaderEvents == {"connected", "close_request", "closed", "error", "has_connected",
                 "p_connected", "p_disconnected"}
ReaderOrEvents == {"connected_event", "disconnected_event", "enter_event"}
NoOrEvent == [flag |-> FALSE, events |-> {}]

IsSet(e) == ev[e].flag

\* KeepAliveReader.__init__ (threaded.py 117-135), for any default_timeout_s
\* and any state of the port.
ReaderInit ==
    /\ ev = [e \in ReaderEvents |-> NewEvent]
    /\ orev = [k \in ReaderOrEvents |-> NoOrEvent]
    /\ pc = "new"
    /\ default_timeout_s \in Timeouts
    /\ available \in BOOLEAN
    /\ protocol = None
    /\ transportOpen = FALSE
    /\ readerAlive = FALSE
    /\ error_exception = None
    /\ opens = 0
    /\ closedSets = 0
    /\ initial_listing = "unknown"
    /\ polled = FALSE
    /\ cpc = [c \in Callers |-> "idle"]
    /\ scope = "out"
    /\ call = [c \in Callers |-> [timeout |-> None, early |-> FALSE]]
    /\ lastWrite = [early |-> FALSE, outcome |-> None]
    /\ closeCalled = [c \in Callers |-> FALSE]

\* The three statements every failure branch of run() ends with (149-152,
\* 169-172, 174-177): record the cause, error.set(), closed.set(), return.
Abort(exception) ==
    LET r1 == event_set(ev, orev, "error")
        r2 == event_set(r1.evs, r1.ors, "closed")
    IN  /\ ev' = r2.evs
        /\ orev' = r2.ors
        /\ error_exception' = exception
        /\ closedSets' = Min(closedSets + 1, MaxClosedSets)
        /\ pc' = "done"

\* A variant of the close path of the poll loop that sets closed and goes on
\* polling instead of returning.
CloseAndGoOn ==
    LET r == event_set(ev, orev, "closed")
    IN  /\ ev' = r.evs
        /\ orev' = r.ors
        /\ closedSets' = Min(closedSets + 1, MaxClosedSets)
        /\ pc' = "poll"

\* self.closed.set(); return, outside the with block (162-163).
CloseAndReturn ==
    LET r == event_set(ev, orev, "closed")
    IN  /\ ev' = r.evs
        /\ orev' = r.ors
        /\ closedSets' = Min(closedSets + 1, MaxClosedSets)
        /\ pc' = "done"

\* self.closed.set(); return, inside the with block (190-191, 200-201): the
\* with block is still to be left.
CloseInsideWith ==
    LET r == event_set(ev, orev, "closed")
    IN  /\ ev' = r.evs
        /\ orev' = r.ors
        /\ closedSets' = Min(closedSets + 1, MaxClosedSets)
        /\ pc' = "exit_close"

\* Thread.start() of the reader, called directly.
Start ==
    /\ pc = "new"
    /\ pc' = "initial"
    /\ UNCHANGED <<notReader, ev, orev, default_timeout_s, available, protocol, transportOpen,
                   readerAlive, error_exception, opens, closedSets, initial_listing,
                   polled, callerVars>>

\* A variant of the initial check that records the error but goes on to the loop.
WorkerInitialNoReturn ==
    /\ pc = "initial"
    /\ IF available
       THEN /\ initial_listing' = "present"
            /\ UNCHANGED <<ev, orev, error_exception>>
       ELSE /\ initial_listing' = "absent"
            /\ ev' = event_set(ev, orev, "error").evs
            /\ orev' = event_set(ev, orev, "error").ors
            /\ error_exception' = "NameError"
    /\ pc' = "poll"
    /\ UNCHANGED <<notReader, default_timeout_s, available, protocol, transportOpen, readerAlive,
                   opens, closedSets, polled, callerVars>>

\* run() 143-152: the port must be in the first enumeration.
WorkerInitial ==
    /\ pc = "initial"
    /\ IF available
       THEN /\ initial_listing' = "present"
            /\ pc' = "poll"
            /\ UNCHANGED <<ev, orev, error_exception, closedSets>>
       ELSE /\ initial_listing' = "absent"
            /\ Abort("NameError")
    /\ UNCHANGED <<notReader, default_timeout_s, available, protocol, transportOpen, readerAlive,
                   opens, polled, callerVars>>

\* run() 144, 156: get_serial_ports raises something other than NameError
\* (the port enumeration of the system fails, or probing a port raises an
\* exception that test_connection does not catch).  No handler of run()
\* covers it: the exception ends the worker thread where it stands.
WorkerEnumerationRaises ==
    /\ pc \in {"initial", "poll"}
    /\ pc' = "crashed"
    /\ UNCHANGED <<notReader, ev, orev, default_timeout_s, available, protocol, transportOpen,
                   readerAlive, error_exception, opens, closedSets, initial_listing,
                   polled, callerVars>>

\* run() 156: the test of the poll loop.
WorkerPoll ==
    /\ pc = "poll"
    /\ IF available
       THEN pc' = "open" /\ UNCHANGED polled
       ELSE pc' = "poll_wait" /\ polled' = TRUE
    /\ UNCHANGED <<notReader, ev, orev, default_timeout_s, available, protocol, transportOpen,
                   readerAlive, error_exception, opens, closedSets, initial_listing,
                   callerVars>>

\* A variant of the poll loop without the test of close_request (160-163).
WorkerPollWaitIgnoresClose ==
    /\ pc = "poll_wait"
    /\ pc' = "poll"
    /\ UNCHANGED <<ev, orev, closedSets>>
    /\ UNCHANGED <<notReader, default_timeout_s, available, protocol, transportOpen, readerAlive,
                   error_exception, opens, initial_listing, polled, callerVars>>

\* run() 159-163: close_request.wait(2) returns, on the event or after two
\* seconds; quit if close was requested.
WorkerPollWait ==
    /\ pc = "poll_wait"
    /\ IF IsSet("close_request")
       THEN CloseAndReturn
       ELSE pc' = "poll" /\ UNCHANGED <<ev, orev, closedSets>>
    /\ UNCHANGED <<notReader, default_timeout_s, available, protocol, transportOpen, readerAlive,
                   error_exception, opens, initial_listing, polled, callerVars>>

\* A variant of run() that records a failed open and polls for the port
\* again instead of returning.
WorkerOpenRetries ==
    /\ pc = "open"
    /\ opens' = Min(opens + 1, MaxOpens)
    /\ \E outcome \in {"ok", "SerialException", "Exception"} :
        IF outcome = "ok"
        THEN LET fresh == [ev EXCEPT !["p_connected"] = NewEvent,
                                     !["p_disconnected"] = NewEvent]
                 r == connection_made(fresh, orev, "p_connected", "p_disconnected")
             IN  /\ ev' = r.evs
                 /\ orev' = r.ors
                 /\ protocol' = "adapter"
                 /\ transportOpen' = TRUE
                 /\ readerAlive' = TRUE
                 /\ pc' = "bind_connected"
                 /\ UNCHANGED <<error_exception, closedSets>>
        ELSE /\ LET r == event_set(ev, orev, "error")
                IN  ev' = r.evs /\ orev' = r.ors
             /\ error_exception' = outcome
             /\ pc' = "poll"
             /\ UNCHANGED <<protocol, transportOpen, readerAlive, closedSets>>
    /\ UNCHANGED <<notReader, default_timeout_s, available, initial_listing, polled, callerVars>>

\* run() 164-180: serial_for_url fails (either except branch), or succeeds:
\* then the ReaderThread context starts the reader thread, which creates the
\* adapter and calls its connection_made, and self.protocol is bound to it.
WorkerOpen ==
    /\ pc = "open"
    /\ opens' = Min(opens + 1, MaxOpens)
    /\ \E outcome \in {"ok", "SerialException", "Exception"} :
        IF outcome = "ok"
        THEN LET fresh == [ev EXCEPT !["p_connected"] = NewEvent,
                                     !["p_disconnected"] = NewEvent]
                 r == connection_made(fresh, orev, "p_connected", "p_disconnected")
             IN  /\ ev' = r.evs
                 /\ orev' = r.ors
                 /\ protocol' = "adapter"
                 /\ transportOpen' = TRUE
                 /\ readerAlive' = TRUE
                 /\ pc' = "bind_connected"
                 /\ UNCHANGED <<error_exception, closedSets>>
        ELSE /\ Abort(outcome)
             /\ UNCHANGED <<protocol, transportOpen, readerAlive>>
    /\ UNCHANGED <<notReader, default_timeout_s, available, initial_listing, polled, callerVars>>

\* run() 182: connected_event = OrEvent(protocol.connected, self.close_request).
WorkerBindConnected ==
    /\ pc = "bind_connected"
    /\ LET r == OrEvent(ev, orev, "connected_event", {"p_connected", "close_request"})
       IN  ev' = r.evs /\ orev' = r.ors
    /\ pc' = "bind_disconnected"
    /\ UNCHANGED <<notReader, default_timeout_s, available, protocol, transportOpen, readerAlive,
                   error_exception, opens, closedSets, initial_listing, polled,
                   callerVars>>

\* run() 183: disconnected_event = OrEvent(protocol.disconnected, self.close_request).
WorkerBindDisconnected ==
    /\ pc = "bind_disconnected"
    /\ LET r == OrEvent(ev, orev, "disconnected_event", {"p_disconnected", "close_request"})
       IN  ev' = r.evs /\ orev' = r.ors
    /\ pc' = "wait_connected"
    /\ UNCHANGED <<notReader, default_timeout_s, available, protocol, transportOpen, readerAlive,
                   error_exception, opens, closedSets, initial_listing, polled,
                   callerVars>>

\* A variant of the connect wait that uses default_timeout_s on every attempt.
ConnectTimeoutEveryAttempt == default_timeout_s

\* The timeout of the connect wait (186).
ConnectTimeout == IF IsSet("has_connected") THEN None ELSE default_timeout_s

\* run() 186-194: connected_event.wait(...) returns, on the event or on its
\* timeout; quit if close was requested, else report the connection.
WorkerWaitConnected ==
    /\ pc = "wait_connected"
    /\ orev["connected_event"].flag \/ ConnectTimeout # None
    /\ IF IsSet("close_request")
       THEN CloseInsideWith
       ELSE LET r1 == event_set(ev, orev, "connected")
                r2 == event_set(r1.evs, r1.ors, "has_connected")
            IN  /\ ev' = r2.evs
                /\ orev' = r2.ors
                /\ pc' = "wait_disconnected"
                /\ UNCHANGED closedSets
    /\ UNCHANGED <<notReader, default_timeout_s, available, protocol, transportOpen, readerAlive,
                   error_exception, opens, initial_listing, polled, callerVars>>

\* A variant of run() that treats a disconnection as fatal.
WorkerWaitDisconnectedAborts ==
    /\ pc = "wait_disconnected"
    /\ orev["disconnected_event"].flag
    /\ IF IsSet("close_request")
       THEN CloseInsideWith /\ UNCHANGED error_exception
       ELSE Abort("Disconnected")
    /\ UNCHANGED <<notReader, default_timeout_s, available, protocol, transportOpen, readerAlive,
                   opens, initial_listing, polled, callerVars>>

\* run() 196-203: disconnected_event.wait() returns; quit if close was
\* requested, else clear connected and go round the loop.
WorkerWaitDisconnected ==
    /\ pc = "wait_disconnected"
    /\ orev["disconnected_event"].flag
    /\ IF IsSet("close_request")
       THEN CloseInsideWith
       ELSE LET r == event_clear(ev, orev, "connected")
            IN  /\ ev' = r.evs
                /\ orev' = r.ors
                /\ pc' = "exit_loop"
                /\ UNCHANGED closedSets
    /\ UNCHANGED <<notReader, default_timeout_s, available, protocol, transportOpen, readerAlive,
                   error_exception, opens, initial_listing, polled, callerVars>>

\* Leaving `with serial.threaded.ReaderThread(...)` (179): the reader thread
\* is stopped, calling connection_lost if it has not yet, and the device is
\* closed.  `to` is where run() goes on.
LeaveWith(to) ==
    /\ IF readerAlive
       THEN LET r == connection_lost(ev, orev, "p_connected", "p_disconnected")
            IN  ev' = r.evs /\ orev' = r.ors
       ELSE UNCHANGED <<ev, orev>>
    /\ readerAlive' = FALSE
    /\ transportOpen' = FALSE
    /\ pc' = to
    /\ UNCHANGED <<notReader, default_timeout_s, available, protocol, error_exception, opens,
                   closedSets, initial_listing, polled, callerVars>>

\* The with block is left by one of the returns of 191 and 201.
WorkerExitClose ==
    /\ pc = "exit_close"
    /\ LeaveWith("done")

\* The with block is left at its end, after 203: loop to reconnect.
WorkerExitLoop ==
    /\ pc = "exit_loop"
    /\ LeaveWith("poll")

InWith == pc \in {"bind_connected", "bind_disconnected", "wait_connected",
                  "wait_disconnected", "exit_close", "exit_loop"}

\* The reader thread's read loop ends on an I/O error (the device was
\* unplugged): it calls the adapter's connection_lost.
IOConnectionLost ==
    /\ InWith
    /\ readerAlive
    /\ LET r == connection_lost(ev, orev, "p_connected", "p_disconnected")
       IN  ev' = r.evs /\ orev' = r.ors
    /\ readerAlive' = FALSE
    /\ UNCHANGED <<notReader, pc, default_timeout_s, available, protocol, transportOpen,
                   error_exception, opens, closedSets, initial_listing, polled,
                   callerVars>>

\* The port enters the list of available ports.
PortAppears ==
    /\ ~available
    /\ available' = TRUE
    /\ UNCHANGED <<notReader, ev, orev, pc, default_timeout_s, protocol, transportOpen, readerAlive,
                   error_exception, opens, closedSets, initial_listing, polled,
                   callerVars>>

\* The port leaves the list of available ports.
PortDisappears ==
    /\ available
    /\ available' = FALSE
    /\ UNCHANGED <<notReader, ev, orev, pc, default_timeout_s, protocol, transportOpen, readerAlive,
                   error_exception, opens, closedSets, initial_listing, polled,
                   callerVars>>

Worker ==
    \/ WorkerInitial
    \/ WorkerEnumerationRaises
    \/ WorkerPoll
    \/ WorkerPollWait
    \/ WorkerOpen
    \/ WorkerBindConnected
    \/ WorkerBindDisconnected
    \/ WorkerWaitConnected
    \/ WorkerWaitDisconnected
    \/ WorkerExitClose
    \/ WorkerExitLoop

NoCall == [timeout |-> None, early |-> FALSE]

\* A variant of close() that toggles the request instead of setting it.
CloseToggles(c) ==
    /\ cpc[c] = "idle"
    /\ LET r == IF IsSet("close_request")
                THEN event_clear(ev, orev, "close_request")
                ELSE event_set(ev, orev, "close_request")
       IN  ev' = r.evs /\ orev' = r.ors
    /\ closeCalled' = [closeCalled EXCEPT ![c] = TRUE]
    /\ UNCHANGED <<notReader, workerVars, cpc, scope, call, lastWrite>>

\* close() (253-254) by caller c: self.close_request.set().
Close(c) ==
    /\ cpc[c] = "idle"
    /\ LET r == event_set(ev, orev, "close_request")
       IN  ev' = r.evs /\ orev' = r.ors
    /\ closeCalled' = [closeCalled EXCEPT ![c] = TRUE]
    /\ UNCHANGED <<notReader, workerVars, cpc, scope, call, lastWrite>>

\* write(data, timeout_s) (206-225) is called by caller c.  `early` records
\* that no connection has existed so far: no adapter, has_connected unset.
WriteCall(c, t) ==
    /\ c \in Writers
    /\ cpc[c] = "idle"
    /\ cpc' = [cpc EXCEPT ![c] = "write_wait"]
    /\ call' = [call EXCEPT ![c] = [timeout |-> t,
                                     early |-> protocol = None /\ ~IsSet("has_connected")]]
    /\ UNCHANGED <<notReader, ev, orev, workerVars, scope, lastWrite, closeCalled>>

\* write() 223: self.connected.wait(timeout_s) returns, because connected is
\* set or because the timeout has elapsed.
WriteWake(c) ==
    /\ cpc[c] = "write_wait"
    /\ IsSet("connected") \/ call[c].timeout # None
    /\ cpc' = [cpc EXCEPT ![c] = "write_send"]
    /\ UNCHANGED <<notReader, ev, orev, workerVars, scope, call, lastWrite, closeCalled>>

\* The result of writing to the transport of self.protocol: pyserial raises
\* when the device has been closed; while it is open the data is written,
\* also when the adapter's disconnected event has fired (written_lost).
TransportWrite ==
    IF ~transportOpen THEN "raised"
    ELSE IF IsSet("p_disconnected") THEN "written_lost"
    ELSE "written"

\* A variant of write() without the `if self.protocol` test: None has no
\* transport attribute, so the access raises.
WriteSendUnguarded(c) ==
    /\ cpc[c] = "write_send"
    /\ lastWrite' = [early |-> call[c].early,
                     outcome |-> IF protocol # None THEN TransportWrite ELSE "raised"]
    /\ call' = [call EXCEPT ![c] = NoCall]
    /\ cpc' = [cpc EXCEPT ![c] = "idle"]
    /\ UNCHANGED <<notReader, ev, orev, workerVars, scope, closeCalled>>

\* write() 224-225: if self.protocol: self.protocol.transport.write(data).
WriteSend(c) ==
    /\ cpc[c] = "write_send"
    /\ lastWrite' = [early |-> call[c].early,
                     outcome |-> IF protocol # None THEN TransportWrite ELSE "returned"]
    /\ call' = [call EXCEPT ![c] = NoCall]
    /\ cpc' = [cpc EXCEPT ![c] = "idle"]
    /\ UNCHANGED <<notReader, ev, orev, workerVars, scope, closeCalled>>

\* __enter__ 263: self.start(), by the thread that owns the reader.
Enter(c) ==
    /\ c = Owner
    /\ pc = "new"
    /\ cpc[c] = "idle"
    /\ scope = "out"
    /\ pc' = "initial"
    /\ cpc' = [cpc EXCEPT ![c] = "enter_bind"]
    /\ UNCHANGED <<notReader, ev, orev, default_timeout_s, available, protocol,
                   transportOpen, readerAlive, error_exception, opens, closedSets,
                   initial_listing, polled, scope, call, lastWrite, closeCalled>>

\* __enter__ 265: event = OrEvent(self.connected, self.closed).
EnterBind(c) ==
    /\ cpc[c] = "enter_bind"
    /\ LET r == OrEvent(ev, orev, "enter_event", {"connected", "closed"})
       IN  ev' = r.evs /\ orev' = r.ors
    /\ cpc' = [cpc EXCEPT ![c] = "enter_wait"]
    /\ UNCHANGED <<notReader, workerVars, scope, call, lastWrite, closeCalled>>

\* __enter__ 266: event.wait(self.default_timeout_s) returns, because the
\* OrEvent is set or because the timeout has elapsed.
EnterWake(c) ==
    /\ cpc[c] = "enter_wait"
    /\ orev["enter_event"].flag \/ default_timeout_s # None
    /\ cpc' = [cpc EXCEPT ![c] = "enter_check"]
    /\ UNCHANGED <<notReader, ev, orev, workerVars, scope, call, lastWrite, closeCalled>>

\* A variant of __enter__ that returns self without testing connected.
EnterReturnUnchecked(c) ==
    /\ cpc[c] = "enter_check"
    /\ scope' = "in"
    /\ cpc' = [cpc EXCEPT ![c] = "idle"]
    /\ UNCHANGED <<notReader, ev, orev, workerVars, call, lastWrite, closeCalled>>

\* __enter__ 267-269: RuntimeError unless connected is set, else return self.
EnterReturn(c) ==
    /\ cpc[c] = "enter_check"
    /\ scope' = IF IsSet("connected") THEN "in" ELSE "failed"
    /\ cpc' = [cpc EXCEPT ![c] = "idle"]
    /\ UNCHANGED <<notReader, ev, orev, workerVars, call, lastWrite, closeCalled>>

\* __exit__ 273: self.close(), by the owner inside its with block.
Exit(c) ==
    /\ c = Owner
    /\ scope = "in"
    /\ cpc[c] = "idle"
    /\ LET r == event_set(ev, orev, "close_request")
       IN  ev' = r.evs /\ orev' = r.ors
    /\ closeCalled' = [closeCalled EXCEPT ![c] = TRUE]
    /\ cpc' = [cpc EXCEPT ![c] = "exit_wait"]
    /\ UNCHANGED <<notReader, workerVars, scope, call, lastWrite>>

\* __exit__ 274: self.closed.wait() returns.
ExitReturn(c) ==
    /\ cpc[c] = "exit_wait"
    /\ IsSet("closed")
    /\ cpc' = [cpc EXCEPT ![c] = "idle"]
    /\ scope' = "left"
    /\ UNCHANGED <<notReader, ev, orev, workerVars, call, lastWrite, closeCalled>>

(***************************************************************************)
(* SpecReq: request() (threaded.py 22-61) called by the requesters on one  *)
(* response queue, while the I/O callback puts responses on it.  rpc is a  *)
(* requester's position:                                                   *)
(*   idle         not in a call                                            *)
(*   wait         payload written; in Queue.get (51) or at the loop test   *)
(*                of the polling loop (57)                                 *)
(*   poll_get     the queue was seen non-empty (58), before get() (59)     *)
(*   returned     the call has returned rres                               *)
(*   no_response  the call has raised queue.Empty (53, 61)                 *)
(*   type_error   the loop test compared a float with None (57)            *)
(***************************************************************************)
ReqInit ==
    /\ queue = <<>>
    /\ rpc = [r \in Requesters |-> "idle"]
    /\ rarg = [r \in Requesters |-> [poll |-> FALSE, timeout |-> None]]
    /\ rres = [r \in Requesters |-> NoItem]
    /\ devWrites = 0

\* A variant of Queue.get that takes the newest item.
QueueGetNewest(q) == [item |-> q[Len(q)], rest |-> SubSeq(q, 1, Len(q) - 1)]

\* response_queue.get (51, 59) on a non-empty queue.Queue: first in, first out.
QueueGet(q) == [item |-> Head(q), rest |-> Tail(q)]

\* The I/O callback puts a response on the queue.
Put(i) ==
    /\ Len(queue) < MaxQueue
    /\ queue' = Append(queue, i)
    /\ UNCHANGED <<notReq, rpc, rarg, rres, devWrites>>

\* request(device, response_queue, payload, timeout_s=t, poll=p) is called:
\* device.write(payload) (47).
ReqCall(r, p, t) ==
    /\ rpc[r] = "idle"
    /\ devWrites' = Min(devWrites + 1, MaxDevWrites)
    /\ rarg' = [rarg EXCEPT ![r] = [poll |-> p, timeout |-> t]]
    /\ rres' = [rres EXCEPT ![r] = NoItem]
    /\ rpc' = [rpc EXCEPT ![r] = "wait"]
    /\ UNCHANGED <<notReq, queue>>

\* Blocking discipline (48-53): response_queue.get(timeout=timeout_s) returns
\* the head, or raises queue.Empty when a finite timeout elapses on an empty
\* queue.
ReqBlockingGet(r) ==
    /\ rpc[r] = "wait"
    /\ ~rarg[r].poll
    /\ IF queue # <<>>
       THEN /\ rres' = [rres EXCEPT ![r] = QueueGet(queue).item]
            /\ queue' = QueueGet(queue).rest
            /\ rpc' = [rpc EXCEPT ![r] = "returned"]
       ELSE /\ rarg[r].timeout # None
            /\ rpc' = [rpc EXCEPT ![r] = "no_response"]
            /\ UNCHANGED <<queue, rres>>
    /\ UNCHANGED <<notReq, rarg, devWrites>>

\* A variant of the polling discipline that empties the queue when its
\* timeout has elapsed.
ReqPollTestDrains(r) ==
    /\ rpc[r] = "wait"
    /\ rarg[r].poll
    /\ IF rarg[r].timeout = None
       THEN rpc' = [rpc EXCEPT ![r] = "type_error"] /\ UNCHANGED queue
       ELSE \/ rpc' = [rpc EXCEPT ![r] = "no_response"] /\ queue' = <<>>
            \/ /\ queue # <<>>
               /\ rpc' = [rpc EXCEPT ![r] = "poll_get"]
               /\ UNCHANGED queue
    /\ UNCHANGED <<notReq, rarg, rres, devWrites>>

\* Polling discipline (56-61), one evaluation of the loop test and of the
\* emptiness test: the comparison with timeout_s None raises TypeError; a
\* finite timeout has elapsed (queue.Empty) or has not, and then a non-empty
\* queue leads to get().  Finding the queue empty leaves the state as it is.
ReqPollTest(r) ==
    /\ rpc[r] = "wait"
    /\ rarg[r].poll
    /\ IF rarg[r].timeout = None
       THEN rpc' = [rpc EXCEPT ![r] = "type_error"]
       ELSE \/ rpc' = [rpc EXCEPT ![r] = "no_response"]
            \/ /\ queue # <<>>
               /\ rpc' = [rpc EXCEPT ![r] = "poll_get"]
    /\ UNCHANGED <<notReq, queue, rarg, rres, devWrites>>

\* Polling discipline (59): return response_queue.get(), which blocks while
\* the queue is empty.
ReqPollGet(r) ==
    /\ rpc[r] = "poll_get"
    /\ queue # <<>>
    /\ rres' = [rres EXCEPT ![r] = QueueGet(queue).item]
    /\ queue' = QueueGet(queue).rest
    /\ rpc' = [rpc EXCEPT ![r] = "returned"]
    /\ UNCHANGED <<notReq, rarg, devWrites>>

\* The caller has taken the result of its call and may call again.
ReqFinish(r) ==
    /\ rpc[r] \in {"returned", "no_response", "type_error", "write_error"}
    /\ rpc' = [rpc EXCEPT ![r] = "idle"]
    /\ rres' = [rres EXCEPT ![r] = NoItem]
    /\ UNCHANGED <<notReq, queue, rarg, devWrites>>

ReqNext ==
    \/ \E i \in Items : Put(i)
    \/ \E r \in Requesters, p \in BOOLEAN, t \in Timeouts : ReqCall(r, p, t)
    \/ \E r \in Requesters : ReqBlockingGet(r)
    \/ \E r \in Requesters : ReqPollTest(r)
    \/ \E r \in Requesters : ReqPollGet(r)
    \/ \E r \in Requesters : ReqFinish(r)

(***************************************************************************)
(* SpecRq: KeepAliveReader.request (threaded.py 227-251) called by a       *)
(* requester thread while the worker runs.  It waits for connected and     *)
(* then calls request(self, ...), whose device.write(payload) (47) is the  *)
(* manager's own write() with its default timeout_s=None; the queue stage  *)
(* is the one of SpecReq.  Further values of rpc:                          *)
(*   mgr_wait        in self.connected.wait(timeout_s) (250)               *)
(*   mgr_write_wait  in write(): self.connected.wait(None) (223)           *)
(*   mgr_send        in write(), before `if self.protocol` (224)           *)
(*   write_error     the transport write raised, and so did the call       *)
(***************************************************************************)
MgrRequesters == {"r1"}

\* Responses that wait on the manager's response queue at one time.
MaxPending == 1

\* The adapter's data_received callback puts a response on the queue.
Respond(i) ==
    /\ Len(queue) < MaxPending
    /\ queue' = Append(queue, i)
    /\ UNCHANGED <<notReq, rpc, rarg, rres, devWrites>>

\* KeepAliveReader.request(response_queue, payload, timeout_s=t, poll=p) is
\* called by requester r.
MgrRequest(r, p, t) ==
    /\ r \in MgrRequesters
    /\ rpc[r] = "idle"
    /\ rarg' = [rarg EXCEPT ![r] = [poll |-> p, timeout |-> t]]
    /\ rres' = [rres EXCEPT ![r] = NoItem]
    /\ rpc' = [rpc EXCEPT ![r] = "mgr_wait"]
    /\ UNCHANGED <<notReq, queue, devWrites>>

\* request() 250: self.connected.wait(timeout_s) returns, because connected
\* is set or because the timeout has elapsed; 251 calls request(self, ...),
\* which calls self.write(payload) (47).
MgrRequestWake(r) ==
    /\ rpc[r] = "mgr_wait"
    /\ IsSet("connected") \/ rarg[r].timeout # None
    /\ rpc' = [rpc EXCEPT ![r] = "mgr_write_wait"]
    /\ UNCHANGED <<notReq, queue, rarg, rres, devWrites>>

\* write(payload) 223, called from request() line 47 without a timeout:
\* self.connected.wait(None) returns only once connected is set.
MgrWriteWake(r) ==
    /\ rpc[r] = "mgr_write_wait"
    /\ IsSet("connected")
    /\ rpc' = [rpc EXCEPT ![r] = "mgr_send"]
    /\ UNCHANGED <<notReq, queue, rarg, rres, devWrites>>

\* write(payload) 224-225: if self.protocol: self.protocol.transport.write;
\* an exception of the transport ends the call, else request() goes on to
\* its queue stage (48-61).
MgrWriteSend(r) ==
    /\ rpc[r] = "mgr_send"
    /\ rpc' = [rpc EXCEPT ![r] = IF protocol # None /\ TransportWrite = "raised"
                                  THEN "write_error" ELSE "wait"]
    /\ UNCHANGED <<notReq, queue, rarg, rres, devWrites>>

\* The steps of a requester thread inside a call.
Requester(r) ==
    \/ MgrRequestWake(r)
    \/ MgrWriteWake(r)
    \/ MgrWriteSend(r)
    \/ ReqBlockingGet(r)
    \/ ReqPollTest(r)
    \/ ReqPollGet(r)

Init ==
    /\ OrInit
    /\ EpInit
    /\ ReaderInit
    /\ ReqInit

\* Init with the reader's configuration pinned, for the specifications of
\* the other components.
InitQuiet ==
    /\ Init
    /\ default_timeout_s = None
    /\ ~available

Next ==
    \/ Start
    \/ WorkerInitial
    \/ WorkerEnumerationRaises
    \/ WorkerPoll
    \/ WorkerPollWait
    \/ WorkerOpen
    \/ WorkerBindConnected
    \/ WorkerBindDisconnected
    \/ WorkerWaitConnected
    \/ WorkerWaitDisconnected
    \/ WorkerExitClose
    \/ WorkerExitLoop
    \/ IOConnectionLost
    \/ PortAppears
    \/ PortDisappears
    \/ \E c \in Callers : Close(c)
    \/ \E c \in Callers, t \in Timeouts : WriteCall(c, t)
    \/ \E c \in Callers : WriteWake(c)
    \/ \E c \in Callers : WriteSend(c)
    \/ \E c \in Callers : Enter(c)
    \/ \E c \in Callers : EnterBind(c)
    \/ \E c \in Callers : EnterWake(c)
    \/ \E c \in Callers : EnterReturn(c)
    \/ \E c \in Callers : Exit(c)
    \/ \E c \in Callers : ExitReturn(c)

\* The worker, its environment, close(), and requests through the manager.
RqNext ==
    \/ Start
    \/ WorkerInitial
    \/ WorkerEnumerationRaises
    \/ WorkerPoll
    \/ WorkerPollWait
    \/ WorkerOpen
    \/ WorkerBindConnected
    \/ WorkerBindDisconnected
    \/ WorkerWaitConnected
    \/ WorkerWaitDisconnected
    \/ WorkerExitClose
    \/ WorkerExitLoop
    \/ IOConnectionLost
    \/ PortAppears
    \/ PortDisappears
    \/ \E c \in Callers : Close(c)
    \/ \E i \in Items : Respond(i)
    \/ \E r \in Requesters, p \in BOOLEAN, t \in Timeouts : MgrRequest(r, p, t)
    \/ \E r \in Requesters : MgrRequestWake(r)
    \/ \E r \in Requesters : MgrWriteWake(r)
    \/ \E r \in Requesters : MgrWriteSend(r)
    \/ \E r \in Requesters : ReqBlockingGet(r)
    \/ \E r \in Requesters : ReqPollTest(r)
    \/ \E r \in Requesters : ReqPollGet(r)
    \/ \E r \in Requesters : ReqFinish(r)

SpecOr == InitQuiet /\ [][OrNext]_vars
SpecOrStep == InitQuiet /\ [][OrStepNext]_vars
SpecEP == InitQuiet /\ [][EpNext]_vars
SpecEPStep == InitQuiet /\ [][EpStepNext]_vars
SpecReq == InitQuiet /\ [][ReqNext]_vars
Spec == Init /\ [][Next]_vars

\* The scheduler runs every thread that can take a step: the worker thread,
\* and a caller whose wait in __exit__ can return.
Fairness ==
    /\ WF_vars(Worker)
    /\ \A c \in Callers : WF_vars(ExitReturn(c))

FairSpec == Init /\ [][Next]_vars /\ Fairness

\* The scheduler runs every requester thread that can take a step, and a
\* requester blocked in Queue.get is not passed over for ever while items
\* keep arriving (strong fairness); the producer of responses may stop at
\* any time.
ReqFairness == \A r \in Requesters : SF_vars(Requester(r))

FairSpecReq == InitQuiet /\ [][ReqNext]_vars /\ ReqFairness

SpecRq == Init /\ [][RqNext]_vars

\* The scheduler runs the worker thread and every requester thread that can
\* take a step.
RqFairness ==
    /\ WF_vars(Worker)
    /\ \A r \in Requesters : WF_vars(Requester(r))

FairSpecRq == Init /\ [][RqNext]_vars /\ RqFairness

(***************************************************************************)
(* Claims.                                                                 *)
(***************************************************************************)

\* C1: while a single OrEvent exists, built over one or more sources, its
\* derived event is set if and only if at least one of its sources is set:
\* at construction and after every set() or clear() of any source.
C1_SingleOrEventIsOr ==
    Len(derived) = 1 => (derived[1].flag <=> AnySet(src, derived, 1))

\* C1 witness: a single OrEvent over at least two sources is set while one
\* of its sources is set and another one has been cleared again.
C1_Witness ==
    /\ Len(derived) = 1
    /\ Cardinality(derived[1].events) >= 2
    /\ derived[1].flag
    /\ \E e \in derived[1].events : src[e].flag
    /\ \E e \in derived[1].events : ~src[e].flag /\ src[e].orified

\* C2: every OrEvent, also one that shares sources with another OrEvent,
\* equals the OR of its own sources after every set() or clear().
C2_EachOrEventIsOr ==
    \A k \in 1..Len(derived) : derived[k].flag <=> AnySet(src, derived, k)

\* C3: once close_request is set it is never cleared again, whatever the
\* worker and the callers do afterwards.
C3_CloseRequestStaysSet ==
    [][IsSet("close_request") => ev'["close_request"].flag]_vars

\* C3 witness: close was requested and the worker has since connected,
\* observed the request and finished.
C3_Witness ==
    /\ IsSet("close_request")
    /\ \E c \in Callers : closeCalled[c]
    /\ pc = "done"
    /\ opens >= 1
    /\ lastWrite.outcome # None

\* C4: an adapter that has processed at least one transport callback never
\* has connected and disconnected both set.
C4_NeverBothSet ==
    \A a \in Adapters :
        epInfo[a].processed >= 1 =>
            ~(epEv[<<a, "connected">>].flag /\ epEv[<<a, "disconnected">>].flag)

\* C4 witness: an adapter is connected again after at least two callbacks.
C4_Witness ==
    \E a \in Adapters :
        /\ epInfo[a].processed >= 2
        /\ epEv[<<a, "connected">>].flag
        /\ ~epEv[<<a, "disconnected">>].flag

\* C5: when the first enumeration does not list the port, the worker has
\* terminated with error (cause NameError) and closed set, has never set
\* connected or has_connected, has opened no transport, bound no adapter and
\* has never entered the wait of the poll loop.
C5_InitialAbsentFailsFast ==
    initial_listing = "absent" =>
        /\ pc = "done"
        /\ IsSet("error")
        /\ error_exception = "NameError"
        /\ IsSet("closed")
        /\ ~IsSet("connected")
        /\ ~IsSet("has_connected")
        /\ opens = 0
        /\ protocol = None
        /\ ~transportOpen
        /\ ~polled

\* C5 witness: the port was absent from the first enumeration and has become
\* available afterwards.
C5_Witness ==
    /\ initial_listing = "absent"
    /\ available
    /\ pc = "done"

\* C6: after a first connection (has_connected set), whenever the worker has
\* found the port listed again and is about to open it, connected is
\* eventually set again, unless close is requested or the open fails;
\* has_connected is never cleared.
C6_ReconnectsAfterLoss ==
    /\ [][IsSet("has_connected") => ev'["has_connected"].flag]_vars
    /\ [](pc = "open" /\ IsSet("has_connected") /\ ~IsSet("connected")
            => <>(IsSet("connected") \/ IsSet("close_request") \/ IsSet("error")))

\* C7: once both callers have called close() on a started reader, the worker
\* eventually has set closed, and has done so exactly once (unless an
\* exception that run() does not handle has ended it).
C7_TwoClosesOneTransition ==
    /\ [](closedSets <= 1)
    /\ []((\A c \in Callers : closeCalled[c]) /\ pc # "new"
            => <>((IsSet("closed") /\ closedSets = 1) \/ pc = "crashed"))

\* C8: a write() issued before any connection has existed gets past its
\* wait only with connected set or on its timeout (without timeout, only
\* once a connection has been made), and when it then finds no adapter it
\* returns normally: it raises only if it wrote to an adapter's transport.
C8_EarlyWriteWaitsAndReturns ==
    /\ \A c \in Callers :
        (cpc[c] = "write_send" /\ call[c].early /\ call[c].timeout = None)
            => IsSet("has_connected") /\ protocol # None
    /\ lastWrite.early =>
        /\ protocol = None => lastWrite.outcome = "returned"
        /\ lastWrite.outcome = "raised" => protocol # None

\* C8 witness: an early write with a timeout has returned with no adapter
\* around, while an early write without timeout is still blocked.
C8_Witness ==
    /\ lastWrite.early
    /\ lastWrite.outcome = "returned"
    /\ protocol = None
    /\ \E c \in Callers :
        /\ call[c].early
        /\ call[c].timeout = None
        /\ cpc[c] = "write_wait"

\* C9: in both waiting disciplines, a request() that returns takes the item
\* at the head of the response queue and removes exactly that item: the
\* items behind it stay queued in their order.
C9_ReturnsHeadRemovesOne ==
    [][\A r \in Requesters :
          (rpc[r] \in {"wait", "poll_get"} /\ rpc'[r] = "returned")
              => /\ queue # <<>>
                 /\ rres'[r] = Head(queue)
                 /\ queue' = Tail(queue)]_vars

\* C9 witness: one request has returned in the polling discipline and one in
\* the blocking discipline, they got different items, and an item is left.
C9_Witness ==
    /\ \A r \in Requesters : rpc[r] = "returned"
    /\ \E r \in Requesters : rarg[r].poll
    /\ \E r \in Requesters : ~rarg[r].poll
    /\ \E r1, r2 \in Requesters : rres[r1] # rres[r2]
    /\ queue # <<>>

\* C10: whenever close has been requested on a started reader, the worker
\* eventually sets closed, and a caller waiting in __exit__ eventually
\* returns (unless an exception that run() does not handle has ended the
\* worker).
C10_CloseEventuallyCloses ==
    /\ [](IsSet("close_request") /\ pc # "new"
            => <>(IsSet("closed") \/ pc = "crashed"))
    /\ \A c \in Callers :
        [](cpc[c] = "exit_wait" => <>(cpc[c] = "idle" \/ pc = "crashed"))

\* C11: a request through the manager of a started reader with a finite
\* timeout always terminates, whatever the connection phase: once called, it
\* eventually has returned a response or has raised.
C11_TimedRequestTerminates ==
    \A r \in Requesters :
        [](rpc[r] = "mgr_wait" /\ rarg[r].timeout # None /\ pc # "new"
             => <>(rpc[r] \in {"returned", "no_response", "write_error"}))

\* C12 (as stated): __enter__ returns normally only with connected set, and
\* raises RuntimeError only when the worker has closed (closed is set).
C12_RaisesOnlyWhenClosed ==
    /\ scope = "in" => IsSet("has_connected")
    /\ scope = "failed" => IsSet("closed")

\* C12 (amended): __enter__ blocks until connected or closed fires or
\* default_timeout_s elapses; it returns normally only when it finds
\* connected set, and raises RuntimeError exactly when it finds connected
\* unset: the worker has closed, the timeout has elapsed, or connected was
\* cleared again after a disconnection.
C12_EnterOutcome ==
    /\ [](\A c \in Callers :
            cpc[c] = "enter_check" /\ default_timeout_s = None
                => IsSet("has_connected") \/ IsSet("closed"))
    /\ [][scope = "out" /\ scope' = "in" => IsSet("connected")]_vars
    /\ [][scope = "out" /\ scope' = "failed"
            => /\ ~IsSet("connected")
               /\ \/ IsSet("closed")
                  \/ default_timeout_s # None
                  \/ IsSet("has_connected")]_vars

\* C12 witness: without a timeout, __enter__ has raised although the worker
\* has not closed: connected was set and cleared again before the test.
C12_Witness ==
    /\ scope = "failed"
    /\ default_timeout_s = None
    /\ ~IsSet("closed")

OpenFailures == {"SerialException", "Exception"}

\* C13: a failure of the transport-open call, on the first attempt or on a
\* reconnect, is terminal: the failing step records the cause, sets error
\* and closed and ends the worker with connected unset, and from then on the
\* worker stays terminated, makes no further open and connected stays unset.
C13_OpenFailureIsTerminal ==
    /\ [](error_exception \in OpenFailures
            => /\ pc = "done"
               /\ IsSet("error")
               /\ IsSet("closed")
               /\ ~IsSet("connected")
               /\ ~transportOpen)
    /\ [][pc = "open" /\ pc' \notin {"open", "bind_connected"}
            => /\ error_exception' \in OpenFailures
               /\ ~IsSet("connected")]_vars
    /\ [][(error_exception \in OpenFailures)
            => (pc' = "done" /\ opens' = opens)]_vars

\* C13 witness: an open has failed on a reconnect, after a first connection,
\* and the port is still listed.
C13_Witness ==
    /\ error_exception \in OpenFailures
    /\ IsSet("has_connected")
    /\ opens >= 2
    /\ available
    /\ pc = "done"

\* C14: when close has been requested while the worker waits in the poll
\* loop for a port that is not listed, the worker's next step sets closed
\* and ends the worker, without opening a transport and without setting
\* error or connected.
C14_CloseWhilePollingExits ==
    [][pc = "poll_wait" /\ IsSet("close_request") /\ pc' # pc
          => /\ pc' = "done"
             /\ ev'["closed"].flag
             /\ ~ev'["error"].flag
             /\ ~ev'["connected"].flag
             /\ error_exception' = None
             /\ opens' = opens
             /\ ~transportOpen']_vars

\* C14 witness: the worker has ended from the poll loop on a close request,
\* with the port unlisted, before any open.
C14_Witness ==
    /\ pc = "done"
    /\ polled
    /\ opens = 0
    /\ ~available
    /\ IsSet("close_request")
    /\ IsSet("closed")
    /\ ~IsSet("error")

\* C15: once close_request is set the worker starts no new open cycle: when
\* it comes to the top of its loop with close_request already set, it does
\* not go on to serial_for_url, also when the port is listed as available.
C15_NoOpenAfterCloseRequest ==
    [][(pc \in {"exit_loop", "poll"} /\ IsSet("close_request")) => pc' # "open"]_vars

\* C16: write() never issues a transport write to an adapter whose
\* disconnected event has fired or whose transport has been closed.
C16_NoWriteToTornDownTransport ==
    lastWrite.outcome \notin {"written_lost", "raised"}

\* C17: whenever the worker has ended, for whatever reason, closed is set;
\* when an unexpected exception ended it, error is set as well.
C17_WorkerExitSetsClosed ==
    /\ pc \in {"done", "crashed"} => IsSet("closed")
    /\ pc = "crashed" => IsSet("error")

ManagerConditions == {"connected", "close_request", "closed", "error", "has_connected"}

\* C18: a request() that fails with the no-response error leaves the
\* response queue as it was and changes none of the manager's conditions:
\* no step of the call, from its start to the raise of queue.Empty, changes
\* the queue or connected, close_request, closed, error or has_connected.
C18_FailedRequestChangesNothing ==
    [][\A r \in Requesters :
          (rpc'[r] # rpc[r] /\ rpc'[r] \notin {"returned", "idle"})
              => /\ queue' = queue
                 /\ \A e \in ManagerConditions : ev'[e].flag = ev[e].flag]_vars

\* C18 witness: a request through the connected manager has raised
\* queue.Empty in the polling discipline while a response is queued.
C18_Witness ==
    \E r \in Requesters :
        /\ rpc[r] = "no_response"
        /\ rarg[r].poll
        /\ queue # <<>>
        /\ IsSet("connected")
        /\ pc = "wait_disconnected"

\* C19: a request() without timeout (timeout_s=None) blocks until a response
\* is available and then returns it, in the blocking and in the polling
\* discipline: it never ends in an error.
C19_UntimedRequestNeverFails ==
    \A r \in Requesters :
        rarg[r].timeout = None => rpc[r] \notin {"no_response", "type_error"}

\* C20: the worker sets the manager's connected and has_connected only
\* while the bound adapter's connected event is set: when the wait for the
\* connection ends with neither the adapter's connected nor close_request
\* set (the connect timeout of the first attempt has elapsed), the manager
\* does not report connected.
C20_ConnectedOnlyAfterAdapterConnected ==
    [][pc = "wait_connected" /\ pc' = "wait_disconnected" => IsSet("p_connected")]_vars

\* C21: in every state in which closed is set the worker holds no open
\* transport: a thread that observes closed set finds the transport closed.
C21_ClosedMeansNoOpenTransport ==
    IsSet("closed") => ~transportOpen

\* C22: the manager's adapter reference (protocol) is absent whenever the
\* worker is waiting for the port, is about to open it, or has ended: the
\* adapter of a finished open cycle is not referenced any more.
C22_ProtocolAbsentOutsideCycle ==
    pc \in {"new", "initial", "poll", "poll_wait", "open", "done", "crashed"}
        => protocol = None

\* C23: closed is monotonic, and the worker executes closed.set() at most
\* once: once closed is set it stays set, and the worker has returned or is
\* leaving its with block on the way out, so no second set can follow.
C23_ClosedSetOnceAndForAll ==
    /\ [][IsSet("closed") => ev'["closed"].flag]_vars
    /\ [](closedSets <= 1)
    /\ [](IsSet("closed") <=> closedSets = 1)
    /\ [](IsSet("closed") => pc \in {"exit_close", "done"})

\* C23 witness: after a connection and close() calls by both callers the
\* worker has set closed once and has returned.
C23_Witness ==
    /\ IsSet("closed")
    /\ closedSets = 1
    /\ pc = "done"
    /\ IsSet("has_connected")
    /\ \A c \in Callers : closeCalled[c]

\* C24: error is set only by the step that finds the port missing from the
\* initial enumeration or by a failed open; closed is set only with error or
\* on a close request.  The port leaving the listing and the loss of an open
\* connection change neither error nor closed, and the worker's reaction to
\* a loss without close request only clears connected and loops.
C24_ErrorOnlyFromInitialOrOpen ==
    /\ [](IsSet("error")
            => \/ error_exception = "NameError" /\ initial_listing = "absent"
               \/ error_exception \in OpenFailures /\ opens >= 1)
    /\ [](IsSet("closed") => IsSet("error") \/ IsSet("close_request"))
    /\ [][(~IsSet("error") /\ ev'["error"].flag) => pc \in {"initial", "open"}]_vars
    /\ [][((available /\ ~available') \/ (readerAlive /\ ~readerAlive'))
            => /\ ev'["error"].flag = ev["error"].flag
               /\ ev'["closed"].flag = ev["closed"].flag]_vars
    /\ [][(pc = "wait_disconnected" /\ ~IsSet("close_request") /\ pc' # pc)
            => /\ pc' = "exit_loop"
               /\ ~ev'["connected"].flag
               /\ ~ev'["error"].flag
               /\ ~ev'["closed"].flag]_vars

\* C24 witness: after a connection was lost and the port has left the
\* listing, the worker polls with connected unset and neither error nor
\* closed set.
C24_Witness ==
    /\ pc = "poll_wait"
    /\ IsSet("has_connected")
    /\ ~available
    /\ ~IsSet("connected")
    /\ ~IsSet("error")
    /\ ~IsSet("closed")

\* C25: once an adapter has been initialized by a completed connection_made,
\* exactly one of its connected and disconnected events is set in every
\* state, also between the two event operations of a callback.
C25_ExactlyOneAtEveryStep ==
    \A a \in Adapters :
        epStep[a].made =>
            (epEv[<<a, "connected">>].flag <=> ~epEv[<<a, "disconnected">>].flag)

\* C26: on a reconnection attempt (has_connected set) the connect wait has
\* no timeout: the worker leaves it only with the adapter's connected event
\* or close_request set, and leaving it never sets error; it sets closed and
\* exits only if close was requested.
C26_ReconnectWaitNeverGivesUp ==
    [][(pc = "wait_connected" /\ IsSet("has_connected") /\ pc' # pc)
          => /\ IsSet("p_connected") \/ IsSet("close_request")
             /\ ~ev'["error"].flag
             /\ ev'["closed"].flag => IsSet("close_request")
             /\ pc' = "exit_close" => IsSet("close_request")
             /\ pc' \in {"exit_close", "wait_disconnected"}]_vars

\* C26 witness: with a finite default_timeout_s configured, the worker is in
\* the connect wait of a reconnection while neither the adapter's connected
\* event nor close_request is set.
C26_Witness ==
    /\ pc = "wait_connected"
    /\ IsSet("has_connected")
    /\ default_timeout_s # None
    /\ opens >= 2
    /\ ~IsSet("p_connected")
    /\ ~IsSet("close_request")

\* C27: when two threads set and clear different sources of one OrEvent at
\* the same time, with the statements of the callback interleaved, then
\* once both calls have returned the derived event is not left cleared
\* while one of its sources is set.
C27_ConcurrentUpdatesSettle ==
    (Len(derived) = 1 /\ \A th \in OrThreads : orStep[th].at = "idle")
        => (AnySet(src, derived, 1) => derived[1].flag)

\* C28: in the polling discipline with a finite timeout, a request() that
\* runs concurrently with another consumer of the same queue terminates:
\* once called it eventually has returned an item or raised queue.Empty.
C28_PollingRequestTerminates ==
    \A r \in Requesters :
        [](rpc[r] = "wait" /\ rarg[r].poll /\ rarg[r].timeout # None
             => <>(rpc[r] \in {"returned", "no_response"}))

\* C29: in every state in which closed is set, the manager's connected is
\* unset: a write() issued after shutdown does not find connected set.
C29_ClosedMeansNotConnected ==
    IsSet("closed") => ~IsSet("connected")

====
